---- MODULE Spec2Model ----
(***************************************************************************)
(* A model of lib/ldp.js (linkeddata/ldnode): the LDP resource-access      *)
(* layer over a filesystem tree.                                           *)
(*                                                                         *)
(* Strings are sequences of one-character strings.  A few multi-character  *)
(* tokens stand for fixed substrings of the JavaScript strings they        *)
(* abbreviate: "bytes=" (the range prefix), "%2F" "%7C" "%3A" (percent     *)
(* escapes of / | :), "u1" "u2" (the time_low block of a v1 uuid), "n"    *)
(* (the rest of a v1 uuid after its first '-') and "h1" "h2" (host names). *)
(***************************************************************************)
EXTENDS Integers, Sequences, FiniteSets, TLC

(***************************************************************************)
(* String helpers (JavaScript String methods used by the code)             *)
(***************************************************************************)

Last(s) == s[Len(s)]

\* String.prototype.endsWith(c), for a one-character c.
EndsWith(s, c) == Len(s) > 0 /\ s[Len(s)] = c

\* Index of the first occurrence of character c in s, 0 when there is none.
IndexOf(s, c) ==
  IF \E k \in 1..Len(s) : s[k] = c
  THEN CHOOSE k \in 1..Len(s) : s[k] = c /\ \A j \in 1..(k - 1) : s[j] # c
  ELSE 0

\* String.prototype.split(c): the pieces of s between occurrences of c.
RECURSIVE Split(_, _)
Split(s, c) ==
  LET k == IndexOf(s, c)
  IN IF k = 0 THEN <<s>>
     ELSE <<SubSeq(s, 1, k - 1)>> \o Split(SubSeq(s, k + 1, Len(s)), c)

\* Array.prototype.join(c).
RECURSIVE JoinWith(_, _)
JoinWith(parts, c) ==
  IF parts = <<>> THEN <<>>
  ELSE IF Len(parts) = 1 THEN parts[1]
  ELSE parts[1] \o <<c>> \o JoinWith(Tail(parts), c)

(***************************************************************************)
(* path.join (node's posix path module): concatenate the non-empty         *)
(* arguments with '/', then normalize: drop empty and '.' segments,        *)
(* resolve '..' against the preceding segment, keep a trailing '/'.        *)
(***************************************************************************)

DOT == <<".">>
DOTDOT == <<".", ".">>

\* normalizeString: fold the segments left to right.
RECURSIVE NormalizeSegs(_, _, _)
NormalizeSegs(parts, acc, isAbsolute) ==
  IF parts = <<>> THEN acc
  ELSE LET p == Head(parts)
           rest == Tail(parts)
       IN IF p = <<>> \/ p = DOT THEN NormalizeSegs(rest, acc, isAbsolute)
          ELSE IF p = DOTDOT
               THEN IF acc # <<>> /\ Last(acc) # DOTDOT
                    THEN NormalizeSegs(rest, SubSeq(acc, 1, Len(acc) - 1), isAbsolute)
                    ELSE IF isAbsolute
                         THEN NormalizeSegs(rest, acc, isAbsolute)
                         ELSE NormalizeSegs(rest, Append(acc, p), isAbsolute)
               ELSE NormalizeSegs(rest, Append(acc, p), isAbsolute)

\* path.normalize
PathNormalize(p) ==
  IF p = <<>> THEN DOT
  ELSE LET isAbsolute == p[1] = "/"
           trailing == EndsWith(p, "/")
           segs == NormalizeSegs(Split(p, "/"), <<>>, isAbsolute)
           body == JoinWith(segs, "/")
           body2 == IF body = <<>> /\ ~isAbsolute THEN DOT ELSE body
           body3 == IF body2 # <<>> /\ trailing THEN body2 \o <<"/">> ELSE body2
       IN IF isAbsolute THEN <<"/">> \o body3 ELSE body3

\* path.join(a, b)
PathJoin(a, b) ==
  IF a = <<>> /\ b = <<>> THEN DOT
  ELSE IF a = <<>> THEN PathNormalize(b)
  ELSE IF b = <<>> THEN PathNormalize(a)
  ELSE PathNormalize(a \o <<"/">> \o b)

(***************************************************************************)
(* Bounds and input sets                                                   *)
(***************************************************************************)

\* Number of façade calls started in one behaviour.
MaxCalls == 2

\* The existence checks of one allocation that are counted.
MaxChecks == 3

\* The request slots: requests that can be in flight at the same time.
Procs == {1, 2}

Hosts == {<<"h1">>, <<"h2">>}

\* The hosts calls name: when the server is not multi-tenant the host enters
\* no computation, and one host stands for all.
HostsOf(multi) == IF multi THEN Hosts ELSE {<<"h1">>}

\* Resource contents.  BadTurtle stands for a text rdflib cannot parse.
BadTurtle == <<"!">>
Contents == {<<"x", "y", "z">>, <<"p", "q">>}
\* The body of a post.
PostContents == {<<"x", "y", "z">>}

(***************************************************************************)
(* Values                                                                  *)
(***************************************************************************)

\* JavaScript undefined, for a string-valued or optional field (no string the
\* code builds for such a field is empty); an optional number n is <<n>>.
Undefined == <<>>

NoErr == [status |-> 0, code |-> "", message |-> ""]

\* A raw error of the fs module, with its errno code.
FsError(code) == [status |-> 0, code |-> code, message |-> code]

\* require('./http-error'): error(status, message) with a numeric status.
HttpStatusError(status, message) == [status |-> status, code |-> "", message |-> message]

\* require('./http-error'): error(err, message) with an error object: a typed
\* error keeps its kind; a raw filesystem error becomes NotFound (404) when
\* the target is absent and IOError (500) otherwise.
HttpError(err, message) ==
  [status |-> IF err.status # 0 THEN err.status
              ELSE IF err.code \in {"ENOENT", "ENOTDIR"} THEN 404 ELSE 500,
   code |-> err.code,
   message |-> message]

IsNotFound(e) == e.status = 404
IsIOError(e) == e.status = 500
IsBadSlug(e) == e.status = 400

(***************************************************************************)
(* The filesystem: a function from the segment list of every existing      *)
(* entry (relative to ldp.root, <<>> being ldp.root itself) to its node.   *)
(***************************************************************************)

DirNode == [dir |-> TRUE, data |-> <<>>]
FileNode(data) == [dir |-> FALSE, data |-> data]

\* The segments of an absolute, normalized filename.
Segs(f) == NormalizeSegs(Split(f, "/"), <<>>, TRUE)

Prefixes(segs) == {SubSeq(segs, 1, k) : k \in 0..(Len(segs) - 1)}

\* Path resolution by the kernel: the node at filename f, or the errno.
FsLookup(fsys, f) ==
  LET segs == Segs(f)
      trailing == EndsWith(f, "/") /\ segs # <<>>
  IN IF \E q \in Prefixes(segs) : q \in DOMAIN fsys /\ ~fsys[q].dir
     THEN [err |-> FsError("ENOTDIR"), node |-> DirNode]
     ELSE IF segs \notin DOMAIN fsys
     THEN [err |-> FsError("ENOENT"), node |-> DirNode]
     ELSE IF trailing /\ ~fsys[segs].dir
     THEN [err |-> FsError("ENOTDIR"), node |-> DirNode]
     ELSE [err |-> NoErr, node |-> fsys[segs]]

HasEntry(fsys, f) == FsLookup(fsys, f).err = NoErr

\* fs.Stats: isDirectory() and size.
StatsOf(node) == [isDirectory |-> node.dir, size |-> Len(node.data)]

\* fs.stat(file, cb)
FsStat(fsys, f) ==
  LET r == FsLookup(fsys, f)
  IN [err |-> r.err, stats |-> StatsOf(r.node)]

\* The errno of a filesystem operation that fails for another reason than the
\* absence of its target (a failing disk); "" is no such failure.
NoFault == ""
IoFaults == {NoFault, "EIO"}

\* fs.stat(file, cb) on a filesystem subject to `fault`.
FsStatFaulty(fsys, f, fault) ==
  IF fault # NoFault THEN [err |-> FsError(fault), stats |-> StatsOf(DirNode)]
  ELSE FsStat(fsys, f)

\* fs.readFile(filename, {encoding: 'utf8'}, cb)
FsReadFile(fsys, f) ==
  LET r == FsLookup(fsys, f)
  IN IF r.err # NoErr THEN [err |-> r.err, data |-> <<>>]
     ELSE IF r.node.dir THEN [err |-> FsError("EISDIR"), data |-> <<>>]
     ELSE [err |-> NoErr, data |-> r.node.data]

\* The names of the immediate entries of directory segs.
Children(fsys, segs) ==
  {Last(q) : q \in {q \in DOMAIN fsys : Len(q) = Len(segs) + 1 /\ SubSeq(q, 1, Len(segs)) = segs}}

Extend(fsys, segs, node) ==
  [q \in DOMAIN fsys \cup {segs} |-> IF q = segs THEN node ELSE fsys[q]]

Remove(fsys, segs) == [q \in DOMAIN fsys \ {segs} |-> fsys[q]]

\* mkdirp of every proper prefix of segs.
MkdirP(fsys, segs) ==
  [q \in DOMAIN fsys \cup Prefixes(segs) |-> IF q \in DOMAIN fsys THEN fsys[q] ELSE DirNode]

(***************************************************************************)
(* Path Resolver and Resource Store (lib/utils.js, lib/ldp-file-store.js)  *)
(***************************************************************************)

\* utils.uriToFilename(reqPath, root): the request path under the root.
UriToFilename(reqPath, root) == PathJoin(root, reqPath)

\* var root = !ldp.idp ? ldp.root : ldp.root + host + '/'   (ldp.root is "/")
RootOf(multi, host) == IF multi THEN <<"/">> \o host \o <<"/">> ELSE <<"/">>

\* store.put: create the missing parent directories, then overwrite the file
\* wholesale.  Fails with IOError when the target is a directory or a path
\* component is a regular file.
StorePut(fsys, f, data) ==
  LET segs == Segs(f)
  IN IF segs = <<>> \/ EndsWith(f, "/")
        \/ (segs \in DOMAIN fsys /\ fsys[segs].dir)
        \/ \E q \in Prefixes(segs) : q \in DOMAIN fsys /\ ~fsys[q].dir
     THEN [err |-> HttpStatusError(500, "Error while writing"), fs |-> fsys]
     ELSE [err |-> NoErr, fs |-> Extend(MkdirP(fsys, segs), segs, FileNode(data))]

\* store.delete: NotFound when the target is absent; a regular file or an
\* empty directory is removed; IOError for a directory that has entries.
StoreDelete(fsys, f) ==
  LET r == FsLookup(fsys, f)
      segs == Segs(f)
  IN IF r.err # NoErr
     THEN [err |-> HttpError(r.err, "Can't find resource"), fs |-> fsys]
     ELSE IF segs = <<>> \/ (r.node.dir /\ Children(fsys, segs) # {})
     THEN [err |-> HttpStatusError(500, "Can't delete container"), fs |-> fsys]
     ELSE [err |-> NoErr, fs |-> Remove(fsys, segs)]

(***************************************************************************)
(* Pure helpers of lib/ldp.js                                              *)
(***************************************************************************)

\* decodeURIComponent(slug): every percent escape becomes its character.
DecodeChar(c) ==
  IF c = "%2F" THEN "/" ELSE IF c = "%7C" THEN "|" ELSE IF c = "%3A" THEN ":" ELSE c

DecodeURIComponent(s) == [k \in 1..Len(s) |-> DecodeChar(s[k])]

\* Mutant of SlugMatchesReserved: the pattern has lost its ':' alternative.
SlugMatchesReservedNoColon(slug) == \E k \in 1..Len(slug) : slug[k] \in {"/", "|"}

\* slug.match(/\/|\||:/)
SlugMatchesReserved(slug) == \E k \in 1..Len(slug) : slug[k] \in {"/", "|", ":"}

Digits == <<"0", "1", "2", "3", "4", "5", "6", "7", "8", "9">>

DigitVal(c) == (CHOOSE d \in 1..Len(Digits) : Digits[d] = c) - 1

\* parseInt(s, 10) of a non-empty string of decimal digits.
RECURSIVE ParseIntAcc(_, _)
ParseIntAcc(s, acc) ==
  IF s = <<>> THEN acc ELSE ParseIntAcc(Tail(s), acc * 10 + DigitVal(Head(s)))

ParseInt(s) == ParseIntAcc(s, 0)

\* Number -> String conversion of an integer ('' + n).
RECURSIVE NatToStr(_)
NatToStr(n) ==
  IF n < 10 THEN <<Digits[n + 1]>> ELSE NatToStr(n \div 10) \o <<Digits[(n % 10) + 1]>>

IntToStr(n) == IF n < 0 THEN <<"-">> \o NatToStr(-n) ELSE NatToStr(n)

\* range.replace(/bytes=/, ''): the first occurrence of "bytes=" is removed.
StripBytesPrefix(range) ==
  LET k == IndexOf(range, "bytes=")
  IN IF k = 0 THEN range ELSE SubSeq(range, 1, k - 1) \o SubSeq(range, k + 1, Len(range))

\* The range bookkeeping of get, for a file of `total` bytes.
ParseRange(range, total) ==
  LET parts == Split(StripBytesPrefix(range), "-")
      partialstart == parts[1]
      partialend == IF Len(parts) >= 2 THEN parts[2] ELSE Undefined
      start == ParseInt(partialstart)
      end == IF partialend # <<>> THEN ParseInt(partialend) ELSE total - 1
  IN [start |-> start,
      end |-> end,
      chunksize |-> (end - start) + 1,
      contentRange |-> <<"bytes ">> \o IntToStr(start) \o <<"-">>
                       \o IntToStr(end) \o <<"/">> \o IntToStr(total)]

\* One fs.read of a read stream at offset pos of a file that holds `data`
\* now: the bytes from pos on, as far as the file has them and no further
\* than offset `end` when the stream has one.  The buffer of the stream is
\* larger than any file here.
StreamRead(data, pos, end) ==
  LET last == IF end # Undefined /\ end[1] + 1 < Len(data) THEN end[1] + 1 ELSE Len(data)
  IN SubSeq(data, pos + 1, last)

\* Mutant of CreateReadStream: the whole-file stream starts at offset 1.
CreateReadStreamFromOne(start, end) ==
  IF start # Undefined /\ start[1] # 0 /\ end # Undefined /\ end[1] # 0
  THEN [pos |-> start[1], end |-> end]
  ELSE [pos |-> 1, end |-> Undefined]

\* LDP.createReadStream(filename, start, end): the offset the stream starts
\* to read at and the offset it reads up to.  start and end are optional
\* numbers, and are handed to fs.createReadStream when both are truthy.
CreateReadStream(start, end) ==
  IF start # Undefined /\ start[1] # 0 /\ end # Undefined /\ end[1] # 0
  THEN [pos |-> start[1], end |-> end]
  ELSE [pos |-> 0, end |-> Undefined]

SuffixAcl == <<".", "a", "c", "l">>
SuffixMeta == <<".", "m", "e", "t", "a">>
TurtleExtensions == {<<".", "t", "t", "l">>, SuffixAcl, SuffixMeta}

\* utils.hasSuffix(filename, suffixes)
HasSuffix(f, suffixes) ==
  \E x \in suffixes : Len(f) >= Len(x) /\ SubSeq(f, Len(f) - Len(x) + 1, Len(f)) = x

\* The extension of the last segment of f, from its last '.', or <<>>; a
\* name whose only '.' is its first character has no extension.
ExtName(f) ==
  LET base == Last(Split(f, "/"))
      parts == Split(base, ".")
  IN IF Len(parts) < 2 \/ (Len(parts) = 2 /\ parts[1] = <<>>) THEN <<>>
     ELSE <<".">> \o Last(parts)

\* mime.lookup(filename): the media type of the extension, or false ("").
MimeLookup(f) ==
  LET e == ExtName(f)
  IN IF e = <<".", "t", "t", "l">> THEN "text/turtle"
     ELSE IF e = <<".", "j", "p", "g">> THEN "image/jpeg"
     ELSE IF e = <<".", "t", "x", "t">> THEN "text/plain"
     ELSE ""

DEFAULT_CONTENT_TYPE == "text/turtle"

\* Mutant of FileContentType: the default type is application/octet-stream.
FileContentTypeOctet(f) ==
  LET looked == IF MimeLookup(f) # "" THEN MimeLookup(f) ELSE "application/octet-stream"
  IN IF HasSuffix(f, TurtleExtensions) THEN "text/turtle" ELSE looked

\* The content type get reports for a plain resource.
FileContentType(f) ==
  LET looked == IF MimeLookup(f) # "" THEN MimeLookup(f) ELSE DEFAULT_CONTENT_TYPE
  IN IF HasSuffix(f, TurtleExtensions) THEN "text/turtle" ELSE looked

\* $rdf.parse(data, graph, uri, 'text/turtle'): whether it parses.
ParsesAsTurtle(data) == data # BadTurtle

(***************************************************************************)
(* Inputs of the façade calls                                              *)
(***************************************************************************)

ReqPaths == {<<"/", "a">>, <<"/", "c", "/">>, <<"/", "c", "/", "a">>}

\* Request paths whose names carry the extensions the content type is
\* derived from.
MimePaths == {<<"/", "b", ".", "j", "p", "g">>, <<"/", "b", ".", "t", "t", "l">>,
              <<"/", "b", ".", "j", "p", "g", ".", "a", "c", "l">>,
              <<"/", "c", "/">> \o SuffixMeta, <<"/", ".", "j", "p", "g">>,
              <<"/", "b">>}

\* Containers posted to: a directory, and a path that may be a regular file.
ContainerPaths == {<<"/", "c">>, <<"/", "a">>}

\* Slug headers; <<>> is no slug.
Slugs == {<<>>, <<"a">>, <<"a", "/", "b">>, <<"a", "%2F", "b">>, <<"%7C", "a">>,
          <<"a", ":">>, DOT, DOTDOT}

\* options.possibleRDFType
RdfTypes == {"undefined", "application/ld+json"}

\* options.range; <<>> is no range.  Every range names its start.
Ranges == {<<>>, <<"bytes=", "0", "-", "1">>, <<"bytes=", "1", "-", "2">>,
           <<"bytes=", "1", "-">>}

\* The options of get that its branches read: includeBody, possibleRDFType
\* and range.  A range is read only by a full-body get.
GetOptions ==
  {[includeBody |-> FALSE, type |-> t, range |-> <<>>] : t \in RdfTypes}
  \cup {[includeBody |-> TRUE, type |-> t, range |-> <<>>] : t \in RdfTypes}
  \cup {[includeBody |-> TRUE, type |-> "undefined", range |-> r] : r \in Ranges}

\* uuid.v1(): a time_low block, '-', and the rest.  The time_low block is the
\* low 32 bits of a clock: two consecutive calls never give the same block,
\* and the blocks come round again.
TimeLows == {"u1", "u2"}
Uuids == {<<t, "-", "n">> : t \in TimeLows}

\* A filesystem from a set of <<segments, node>> pairs; <<>> is the root.
FsFrom(entries) ==
  [q \in {e[1] : e \in entries} \cup {<<>>} |->
     IF q = <<>> THEN DirNode ELSE (CHOOSE e \in entries : e[1] = q)[2]]

\* The trees a tenant's root may hold when the server starts.
Trees ==
  { {},
    { << <<<<"a">>>>, FileNode(<<"x", "y", "z">>) >>,
      << <<<<"c">>>>, DirNode >>,
      << <<<<"c">>, <<"a">>>>, FileNode(<<"p", "q">>) >> },
    { << <<<<"a">>>>, FileNode(<<"p", "q">>) >>,
      << <<<<"c">>>>, DirNode >>,
      << <<<<"c">>, SuffixMeta>>, FileNode(BadTurtle) >> },
    { << <<<<"c">>>>, DirNode >>,
      << <<<<"c">>, <<"a">>>>, FileNode(<<"x", "y", "z">>) >>,
      << <<<<"c">>, <<"u1", "-", "a">>>>, FileNode(<<"p", "q">>) >>,
      << <<<<"c">>, <<"u2", "-", "a">>>>, FileNode(<<"p", "q">>) >> } }

\* The configurations the server starts in: options.idp and the tree.
Configs ==
  {<<FALSE, t>> : t \in Trees}
  \cup {<<TRUE, t>> : t \in {t \in Trees : Cardinality(t) = 3 /\ \E e \in t : Len(e[1]) = 2 /\ e[1][2] = <<"a">>}}

\* The tree placed below ldp.root: in host h1's directory when multi-tenant.
Place(multi, tree) ==
  IF multi
  THEN {<< <<<<"h1">>>> \o e[1], e[2] >> : e \in tree} \cup {<< <<<<"h1">>>>, DirNode >>}
  ELSE tree

(***************************************************************************)
(* Values and inputs of the OIDC handlers                                  *)
(***************************************************************************)

\* The browser sessions requests belong to.
Sessions == {"s1", "s2"}

\* WebID URLs; each is a string of one token.
WebIds == {<<"w1">>, <<"w2">>}

\* req.userInfo.profile: an optional string s is <<s>>, undefined is <<>>.
\* The userinfo of a provider may lack the claim, or hold ''.
Profiles == {Undefined, <<<<>>>>} \cup {<<w>> : w \in WebIds}

\* req.userInfo as the verifier leaves it: null (<<>>) when the request has
\* no token, else the userinfo document <<[profile |-> p]>>.
UserInfos == {<<>>} \cup {<<[profile |-> p]>> : p \in Profiles}

\* JavaScript's !v for an optional string.
Falsy(v) == v = Undefined \/ v = <<<<>>>>

\* The requests that arrive; the routers work on them at the same time.
Reqs == {1, 2}

\* The router a request enters: the one of authenticate(), or the route /rp
\* of the router of api().
Routes == {"authenticate", "rp"}

\* req.session.returnToUrl: an optional string.
ReturnToUrls == {<<"/", "r">>}

\* A session before anybody signed in.
NoSession == [userId |-> Undefined, identified |-> FALSE, returnToUrl |-> Undefined]

\* No request.  `nexts` is what authSessionInit has passed to next(), call by
\* call; `kept` whether authSessionInit left the session as it found it
\* (history); `sent` the response of rpCallback.
NoReq == [stage |-> "none", route |-> "authenticate", sid |-> "s1", oidcClient |-> FALSE,
          userInfo |-> <<>>, nexts |-> <<>>, failed |-> FALSE, kept |-> TRUE, sent |-> ""]

(***************************************************************************)
(* State                                                                   *)
(***************************************************************************)

VARIABLES
  idp,       \* ldp.idp: multi-tenant roots
  fs,        \* the filesystem below ldp.root
  ncalls,    \* the number of calls started
  pc,        \* pc[i]: where request i stands
  call,      \* call[i]: the operation and arguments of request i
  loc,       \* loc[i]: the local variables of request i
  cb,        \* cb[i]: what the caller's callback of request i has received
  hist,      \* hist[i]: what request i saw and did (history)
  lastPut,   \* [file, data]: the puts that stand (history)
  deleted,   \* filenames deleted and absent ever since (history)
  created,   \* what earlier posts returned and wrote (history)
  collided,  \* a post returned, or wrote over, what an earlier post created
  fds,       \* fds[i]: the file the read stream of request i holds open
  session,   \* session[s]: req.session of the requests of browser session s
  req        \* req[r]: request r of those the OIDC routers are working on

vars == <<idp, fs, ncalls, pc, call, loc, cb, hist, lastPut, deleted, created, collided,
          fds, session, req>>

\* The state of the resource layer, and the state of the OIDC handlers.
ldpVars == <<idp, fs, ncalls, pc, call, loc, cb, hist, lastPut, deleted, created, collided,
            fds>>
authVars == <<session, req>>

NoCall == [op |-> "none", host |-> <<>>, path |-> <<>>, includeBody |-> FALSE,
           type |-> "undefined", range |-> <<>>, slug |-> <<>>, data |-> <<>>,
           container |-> FALSE]

\* `st` is the outcome of fs.stat that waits for its callback, `rf` the
\* outcome of fs.readFile that waits for its callback, `thrown` the
\* exception that left a callback of the request uncaught.
NoLoc == [newPath |-> <<>>, slug |-> <<>>, originalPath |-> <<>>, resourcePath |-> <<>>,
          start |-> Undefined, end |-> Undefined, chunksize |-> Undefined,
          contentRange |-> Undefined, metaFile |-> <<>>,
          files |-> {}, members |-> {}, lastId |-> <<>>,
          st |-> [err |-> NoErr, stats |-> StatsOf(DirNode)], thrown |-> <<>>,
          rf |-> [err |-> NoErr, data |-> <<>>]]

\* The descriptor of a read stream or of fs.readFile: the file it has opened
\* under the name `file` (`node`, with the content it holds now), whether
\* that file is still the one its name leads to (`linked`), the offset of
\* its next read (`pos`) and the offset a stream reads up to (`end`), the
\* size fs.readFile learnt from fstat and the bytes it has read (`buf`).
NoFd == [open |-> FALSE, linked |-> FALSE, file |-> <<>>, node |-> DirNode,
         pos |-> 0, end |-> Undefined, size |-> 0, buf |-> <<>>]

NoLookup == [err |-> NoErr, node |-> DirNode]

NoHist == [pre |-> NoLookup, undisturbed |-> TRUE, putAtCall |-> <<>>, delAtCall |-> FALSE,
           ops |-> {}, muts |-> {}, allocated |-> <<>>, checked |-> <<>>,
           nchecks |-> 0, listed |-> {}, failed |-> {}, raced |-> FALSE,
           serializeFailed |-> FALSE]

Busy(i) == pc[i] \notin {"idle", "done"}

\* The filename request i is about.
Filename(i) == UriToFilename(call[i].path, RootOf(idp, call[i].host))

Init ==
  /\ \E cfg \in Configs : idp = cfg[1] /\ fs = FsFrom(Place(cfg[1], cfg[2]))
  /\ ncalls = 0
  /\ pc = [i \in Procs |-> "idle"]
  /\ call = [i \in Procs |-> NoCall]
  /\ loc = [i \in Procs |-> NoLoc]
  /\ cb = [i \in Procs |-> <<>>]
  /\ hist = [i \in Procs |-> NoHist]
  /\ lastPut = {}
  /\ deleted = {}
  /\ created = {}
  /\ collided = FALSE
  /\ fds = [i \in Procs |-> NoFd]
  /\ session = [s \in Sessions |-> NoSession]
  /\ req = [r \in Reqs |-> NoReq]

(***************************************************************************)
(* History bookkeeping shared by the steps that change the filesystem      *)
(***************************************************************************)

\* Request i changed the filesystem to newfs: every other request in flight
\* whose target resolves differently now has been disturbed.
Disturb(h, newfs, i) ==
  [j \in Procs |->
     IF j # i /\ Busy(j) /\ FsLookup(newfs, Filename(j)) # FsLookup(fs, Filename(j))
     THEN [h[j] EXCEPT !.undisturbed = FALSE]
     ELSE h[j]]

\* The open descriptors after a step changed the filesystem to newfs.  A
\* write to a file that is held open is a write in place: the next read
\* finds the new content.  A file that was removed stays with its
\* descriptor as it was, and what is written under its name later is
\* another file.
StreamsAfter(newfs) ==
  [j \in Procs |->
     IF fds[j].open /\ fds[j].linked
     THEN LET r == FsLookup(newfs, fds[j].file)
          IN IF r.err # NoErr THEN [fds[j] EXCEPT !.linked = FALSE]
             ELSE [fds[j] EXCEPT !.node = r.node]
     ELSE fds[j]]

\* The puts that still stand after file f was written or removed.
PutsAfter(f) == {r \in lastPut : Segs(r.file) # Segs(f)}

\* The deletions that still stand in filesystem newfs.
DeletedAfter(d, newfs) == {f \in d : ~HasEntry(newfs, f)}

(***************************************************************************)
(* LDP.stat, LDP.readFile, LDP.readContainerMeta                           *)
(***************************************************************************)

\* The callback LDP.stat gives to fs.stat, on its outcome r.
LdpStatCallback(r) ==
  IF r.err # NoErr
  THEN [err |-> HttpError(r.err, "Can't read metadata"), stats |-> r.stats]
  ELSE [err |-> NoErr, stats |-> r.stats]

LdpStat(fsys, file) == LdpStatCallback(FsStat(fsys, file))

\* LDP.stat on a filesystem subject to `fault`.
LdpStatFaulty(fsys, file, fault) == LdpStatCallback(FsStatFaulty(fsys, file, fault))

\* The callback LDP.readFile gives to fs.readFile, on its outcome r.
LdpReadFileCallback(r) ==
  IF r.err # NoErr
  THEN [err |-> HttpError(r.err, "Can't read file"), data |-> <<>>]
  ELSE [err |-> NoErr, data |-> r.data]

LdpReadFile(fsys, filename) == LdpReadFileCallback(FsReadFile(fsys, filename))

\* The file readContainerMeta reads: directory + '/' + suffixMeta.
ReadContainerMetaFile(directory) ==
  (IF Last(directory) # "/" THEN directory \o <<"/">> ELSE directory) \o SuffixMeta

\* The callback readContainerMeta gives to ldp.readFile, on its outcome r.
ReadContainerMetaCallback(r) ==
  IF r.err # NoErr
  THEN [err |-> HttpError(r.err, "Can't read meta file"), data |-> <<>>]
  ELSE [err |-> NoErr, data |-> r.data]

\* readContainerMeta on a filesystem nobody writes meanwhile.
ReadContainerMeta(fsys, directory) ==
  ReadContainerMetaCallback(LdpReadFile(fsys, ReadContainerMetaFile(directory)))

\* The file request i reads with ldp.readFile: the resource of a graph call,
\* the metadata resource of the container of a get.
ReadFileTarget(i) ==
  IF call[i].op = "graph" THEN Filename(i) ELSE ReadContainerMetaFile(Filename(i))

\* The turn in which the callback of ldp.readFile of request i runs.
ReadFileCallbackAt(i) == IF call[i].op = "graph" THEN "graph" ELSE "readMeta"

(***************************************************************************)
(* LDP.delete and LDP.put                                                  *)
(***************************************************************************)

\* Mutant of LdpDeleteCallbacks: the rejection is swallowed.
LdpDeleteCallbacksSwallow(err) == <<[err |-> NoErr, val |-> <<>>]>>

\* What the callback receives from store.delete(...).then(callback).catch(...)
LdpDeleteCallbacks(err) == <<[err |-> err, val |-> <<>>]>>

\* What the callback receives from store.put(...).then(callback).catch(...)
LdpPutCallbacks(err) == <<[err |-> err, val |-> <<>>]>>

\* Request slot i takes a new call, with fewer than k requests in flight.
CanStart(i, k) ==
  /\ ~Busy(i)
  /\ \A j \in 1..(i - 1) : Busy(j)
  /\ Cardinality({j \in Procs : Busy(j)}) < k
  /\ ncalls < MaxCalls

StartCall(i, k) ==
  /\ CanStart(i, k)
  /\ ncalls' = ncalls + 1

\* The history of a call on `path` as it starts.
HistAtCall(host, path) ==
  LET f == UriToFilename(path, RootOf(idp, host))
      puts == {r \in lastPut : r.file = f}
  IN [NoHist EXCEPT !.pre = FsLookup(fs, f),
                    !.putAtCall = IF puts = {} THEN <<>> ELSE <<(CHOOSE r \in puts : TRUE).data>>,
                    !.delAtCall = f \in deleted]

StartDelete(i, k, host, path) ==
  /\ StartCall(i, k)
  /\ call' = [call EXCEPT ![i] = [NoCall EXCEPT !.op = "delete", !.host = host, !.path = path]]
  /\ hist' = [hist EXCEPT ![i] = HistAtCall(host, path)]
  /\ pc' = [pc EXCEPT ![i] = "delete"]
  /\ cb' = [cb EXCEPT ![i] = <<>>]
  /\ loc' = [loc EXCEPT ![i] = NoLoc]
  /\ UNCHANGED <<authVars, fds, idp, fs, lastPut, deleted, created, collided>>

DeleteStep(i) ==
  /\ pc[i] = "delete"
  /\ LET f == Filename(i)
         r == StoreDelete(fs, f)
         h == [hist EXCEPT ![i].ops = @ \cup {"store.delete"},
                           ![i].muts = IF r.err = NoErr THEN @ \cup {f} ELSE @]
     IN /\ fs' = r.fs
        /\ cb' = [cb EXCEPT ![i] = @ \o LdpDeleteCallbacks(r.err)]
        /\ hist' = Disturb(h, r.fs, i)
        /\ lastPut' = IF r.err = NoErr THEN PutsAfter(f) ELSE lastPut
        /\ deleted' = IF r.err = NoErr THEN deleted \cup {f} ELSE deleted
  /\ pc' = [pc EXCEPT ![i] = "done"]
  /\ fds' = StreamsAfter(fs')
  /\ UNCHANGED <<authVars, idp, ncalls, call, loc, created, collided>>

StartPut(i, k, host, path, data) ==
  /\ StartCall(i, k)
  /\ call' = [call EXCEPT ![i] = [NoCall EXCEPT !.op = "put", !.host = host, !.path = path,
                                                !.data = data]]
  /\ hist' = [hist EXCEPT ![i] = HistAtCall(host, path)]
  /\ pc' = [pc EXCEPT ![i] = "put"]
  /\ cb' = [cb EXCEPT ![i] = <<>>]
  /\ loc' = [loc EXCEPT ![i] = NoLoc]
  /\ UNCHANGED <<authVars, fds, idp, fs, lastPut, deleted, created, collided>>

PutStep(i) ==
  /\ pc[i] = "put"
  /\ LET f == Filename(i)
         r == StorePut(fs, f, call[i].data)
         h == [hist EXCEPT ![i].ops = @ \cup {"store.put"},
                           ![i].muts = IF r.err = NoErr THEN @ \cup {f} ELSE @]
     IN /\ fs' = r.fs
        /\ cb' = [cb EXCEPT ![i] = @ \o LdpPutCallbacks(r.err)]
        /\ hist' = Disturb(h, r.fs, i)
        /\ lastPut' = IF r.err = NoErr
                      THEN PutsAfter(f) \cup {[file |-> f, data |-> call[i].data]}
                      ELSE lastPut
        /\ deleted' = DeletedAfter(deleted, r.fs)
  /\ pc' = [pc EXCEPT ![i] = "done"]
  /\ fds' = StreamsAfter(fs')
  /\ UNCHANGED <<authVars, idp, ncalls, call, loc, created, collided>>

(***************************************************************************)
(* LDP.get and LDP.exists                                                  *)
(***************************************************************************)

\* Mutant of GetStatFailed: the stat error is not handed to the callback.
GetStatFailedSilent(err) == <<[err |-> NoErr, val |-> <<>>]>>

\* stat failed: callback(error(err, "Can't find file requested: " + filename))
GetStatFailed(err) ==
  <<[err |-> HttpError(err, "Can't find file requested"), val |-> <<>>]>>

\* Mutant of GetBodyless: the kind is not taken from the stats.
GetBodylessNoKind(stats, contentType) ==
  [stream |-> stats, contentType |-> contentType, container |-> FALSE]

\* includeBody is false: the stats, the caller's content type, the kind.
GetBodyless(stats, contentType) ==
  [stream |-> stats, contentType |-> contentType, container |-> stats.isDirectory]

\* Mutant of GetContainer: the caller's content type is reported.
GetContainerAsDesired(data, contentType) ==
  [stream |-> data, contentType |-> contentType, container |-> TRUE]

\* The result of a listed container: 'text/turtle' is fixed, whatever the
\* caller's content type.
GetContainer(data, contentType) ==
  [stream |-> data, contentType |-> "text/turtle", container |-> TRUE]

\* The result of an opened plain resource.
GetFile(stream, filename, contentRange, chunksize) ==
  [stream |-> stream, contentType |-> FileContentType(filename), container |-> FALSE,
   contentRange |-> contentRange, chunksize |-> chunksize]

\* listContainer before the waterfall: $rdf.parse of the metadata text; the
\* error it hands to the callback when the text does not parse.
ListContainer(containerData) ==
  IF ~ParsesAsTurtle(containerData)
  THEN [err |-> HttpStatusError(500, "Can't parse container")]
  ELSE [err |-> NoErr]

\* ldpContainer.addContainerStats: the container is stat'ed through ldp.stat
\* (outcome st); the error of the stat goes to next.
AddContainerStats(st) == [err |-> st.err]

\* ldpContainer.readdir: the names of the immediate entries of the directory.
Readdir(fsys, filename) ==
  LET r == FsLookup(fsys, filename)
  IN IF r.err # NoErr THEN [err |-> r.err, files |-> {}]
     ELSE IF ~r.node.dir THEN [err |-> FsError("ENOTDIR"), files |-> {}]
     ELSE [err |-> NoErr, files |-> Children(fsys, Segs(filename))]

\* ldpContainer.addFile: the entry is stat'ed; its description joins the
\* graph when the stat succeeds, and the entry is left out when it fails.
\* The error is not handed on.
AddFile(members, file, st) ==
  [err |-> NoErr, members |-> IF st.err # NoErr THEN members ELSE members \cup {file}]

\* utils.serialize(graph, uri, 'text/turtle', cb): the turtle of the graph, or
\* an error when the serializer fails (`fault`).
Serialize(graph, fault) ==
  IF fault # NoFault
  THEN [err |-> [status |-> 0, code |-> "SerializeError", message |-> "SerializeError"],
        result |-> <<>>]
  ELSE [err |-> NoErr, result |-> graph]

\* Mutant of ListFinal: the descriptions of the entries are dropped.
ListFinalSeedOnly(err, seed, members, fault) ==
  IF err # NoErr
  THEN [err |-> HttpStatusError(500, "Can't list container"), data |-> <<>>]
  ELSE IF Serialize([seed |-> seed, members |-> {}], fault).err # NoErr
  THEN [err |-> HttpStatusError(500, "Can't serialize container"), data |-> <<>>]
  ELSE [err |-> NoErr, data |-> Serialize([seed |-> seed, members |-> {}], fault).result]

\* The final callback of the waterfall of listContainer: an error of the
\* waterfall is 'Can't list container'; else the graph (its seed and the
\* members described) is serialized, and a failure of the serializer is
\* 'Can't serialize container'.
ListFinal(err, seed, members, fault) ==
  IF err # NoErr
  THEN [err |-> HttpStatusError(500, "Can't list container"), data |-> <<>>]
  ELSE IF Serialize([seed |-> seed, members |-> members], fault).err # NoErr
  THEN [err |-> HttpStatusError(500, "Can't serialize container"), data |-> <<>>]
  ELSE [err |-> NoErr, data |-> Serialize([seed |-> seed, members |-> members], fault).result]

\* The callback get gives to listContainer.
GetListed(r, contentType) ==
  IF r.err # NoErr THEN [err |-> r.err, val |-> <<>>]
  ELSE [err |-> NoErr, val |-> GetContainer(r.data, contentType)]

StartGet(i, k, host, path, includeBody, type, range) ==
  /\ StartCall(i, k)
  /\ call' = [call EXCEPT ![i] = [NoCall EXCEPT !.op = "get", !.host = host, !.path = path,
                                                !.includeBody = includeBody, !.type = type,
                                                !.range = range]]
  /\ hist' = [hist EXCEPT ![i] = HistAtCall(host, path)]
  /\ pc' = [pc EXCEPT ![i] = "stat"]
  /\ cb' = [cb EXCEPT ![i] = <<>>]
  /\ loc' = [loc EXCEPT ![i] = NoLoc]
  /\ UNCHANGED <<authVars, fds, idp, fs, lastPut, deleted, created, collided>>

\* LDP.exists: get with includeBody false and no content type.
StartExists(i, k, host, path) ==
  /\ StartCall(i, k)
  /\ call' = [call EXCEPT ![i] = [NoCall EXCEPT !.op = "exists", !.host = host, !.path = path,
                                                !.includeBody = FALSE, !.type = "undefined"]]
  /\ hist' = [hist EXCEPT ![i] = HistAtCall(host, path)]
  /\ pc' = [pc EXCEPT ![i] = "stat"]
  /\ cb' = [cb EXCEPT ![i] = <<>>]
  /\ loc' = [loc EXCEPT ![i] = NoLoc]
  /\ UNCHANGED <<authVars, fds, idp, fs, lastPut, deleted, created, collided>>

\* fs.stat of ldp.stat completes: its outcome waits for the turn in which
\* the callback runs.  `fault` is what ails the stat.
GetFsStat(i, fault) ==
  /\ pc[i] = "stat"
  /\ loc' = [loc EXCEPT ![i].st = FsStatFaulty(fs, Filename(i), fault)]
  /\ hist' = [hist EXCEPT ![i].ops = @ \cup {"stat"}]
  /\ pc' = [pc EXCEPT ![i] = "statCb"]
  /\ UNCHANGED <<authVars, fds, idp, fs, ncalls, call, cb, lastPut, deleted, created, collided>>

\* The callback of ldp.stat in get, on the outcome that waited for it.  With
\* a range it asks fs.statSync for the size of the file as it is now (`fault`
\* is what ails that call): when statSync throws, the exception leaves the
\* callback uncaught and the caller's callback is never called.
GetStat(i, fault) ==
  /\ pc[i] = "statCb"
  /\ LET f == Filename(i)
         r == LdpStatCallback(loc[i].st)
         c == call[i]
     IN IF r.err # NoErr
        THEN /\ cb' = [cb EXCEPT ![i] = @ \o GetStatFailed(r.err)]
             /\ pc' = [pc EXCEPT ![i] = "done"]
             /\ UNCHANGED <<hist, loc>>
        ELSE IF ~c.includeBody
        THEN /\ cb' = [cb EXCEPT ![i] = @ \o <<[err |-> NoErr,
                                                val |-> GetBodyless(r.stats, c.type)]>>]
             /\ pc' = [pc EXCEPT ![i] = "done"]
             /\ UNCHANGED <<hist, loc>>
        ELSE IF r.stats.isDirectory
        THEN /\ pc' = [pc EXCEPT ![i] = "rfOpen"]
             /\ UNCHANGED <<cb, hist, loc>>
        ELSE IF c.range # <<>>
        THEN LET sync == FsStatFaulty(fs, f, fault)
                 rg == ParseRange(c.range, sync.stats.size)
             IN IF sync.err # NoErr
                THEN /\ loc' = [loc EXCEPT ![i].thrown = <<sync.err.code>>]
                     /\ hist' = [hist EXCEPT ![i].ops = @ \cup {"statSync"}]
                     /\ pc' = [pc EXCEPT ![i] = "done"]
                     /\ cb' = cb
                ELSE /\ loc' = [loc EXCEPT ![i].start = <<rg.start>>, ![i].end = <<rg.end>>,
                                           ![i].chunksize = <<rg.chunksize>>,
                                           ![i].contentRange = rg.contentRange]
                     /\ hist' = [hist EXCEPT ![i].ops = @ \cup {"statSync", "createReadStream"}]
                     /\ pc' = [pc EXCEPT ![i] = "open"]
                     /\ cb' = cb
        ELSE /\ hist' = [hist EXCEPT ![i].ops = @ \cup {"createReadStream"}]
             /\ pc' = [pc EXCEPT ![i] = "open"]
             /\ UNCHANGED <<cb, loc>>
  /\ UNCHANGED <<authVars, fds, idp, fs, ncalls, call, lastPut, deleted, created, collided>>

\* The read stream opens the file: 'error' when it cannot, else 'open', and
\* the callback receives the stream, of which nothing has been read yet.  A
\* directory opens like a file.
GetOpen(i) ==
  /\ pc[i] = "open"
  /\ LET f == Filename(i)
         r == FsLookup(fs, f)
         l == loc[i]
         o == CreateReadStream(l.start, l.end)
     IN IF r.err # NoErr
        THEN /\ cb' = [cb EXCEPT ![i] = @ \o <<[err |-> HttpError(r.err, "Can't create file"),
                                                val |-> <<>>]>>]
             /\ pc' = [pc EXCEPT ![i] = "done"]
             /\ fds' = fds
        ELSE /\ cb' = [cb EXCEPT ![i] = @ \o <<[err |-> NoErr,
                                                val |-> GetFile(<<>>, f, l.contentRange,
                                                                l.chunksize)]>>]
             /\ pc' = [pc EXCEPT ![i] = "read"]
             /\ fds' = [fds EXCEPT ![i] = [NoFd EXCEPT !.open = TRUE, !.linked = TRUE,
                                                       !.file = f, !.node = r.node,
                                                       !.pos = o.pos, !.end = o.end]]
  /\ hist' = [hist EXCEPT ![i].ops = @ \cup {"open"}]
  /\ UNCHANGED <<authVars, idp, fs, ncalls, call, loc, lastPut, deleted, created, collided>>

\* One read of the stream the callback received, each in a turn of its own:
\* the bytes the opened file holds from the offset of the stream on join what
\* the stream has yielded.  The stream ends with a read that finds nothing,
\* or past the end of its range.  The read of a directory fails (EISDIR), so
\* does a read that `fault` ails: 'error' after 'open', and the callback is
\* called again.
GetRead(i, fault) ==
  /\ pc[i] = "read"
  /\ LET d == fds[i]
         err == IF d.node.dir THEN FsError("EISDIR") ELSE FsError(fault)
         bytes == StreamRead(d.node.data, d.pos, d.end)
         pos == d.pos + Len(bytes)
     IN IF d.node.dir \/ fault # NoFault
        THEN /\ cb' = [cb EXCEPT ![i] = @ \o <<[err |-> HttpError(err, "Can't create file"),
                                                val |-> <<>>]>>]
             /\ fds' = [fds EXCEPT ![i] = NoFd]
             /\ pc' = [pc EXCEPT ![i] = "done"]
        ELSE IF bytes = <<>>
        THEN /\ cb' = cb
             /\ fds' = [fds EXCEPT ![i] = NoFd]
             /\ pc' = [pc EXCEPT ![i] = "done"]
        ELSE /\ cb' = [cb EXCEPT ![i][Len(cb[i])].val.stream = @ \o bytes]
             /\ IF d.end # Undefined /\ pos > d.end[1]
                THEN /\ fds' = [fds EXCEPT ![i] = NoFd]
                     /\ pc' = [pc EXCEPT ![i] = "done"]
                ELSE /\ fds' = [fds EXCEPT ![i].pos = pos]
                     /\ pc' = pc
  /\ hist' = [hist EXCEPT ![i].ops = @ \cup {"read"}]
  /\ UNCHANGED <<authVars, idp, fs, ncalls, call, loc, lastPut, deleted, created, collided>>

\* fs.readFile of ldp.readFile opens its file; an open that fails is the
\* outcome of the readFile.  A directory opens like a file.
ReadFileOpen(i) ==
  /\ pc[i] = "rfOpen"
  /\ LET f == ReadFileTarget(i)
         r == FsLookup(fs, f)
     IN IF r.err # NoErr
        THEN /\ loc' = [loc EXCEPT ![i].rf = [err |-> r.err, data |-> <<>>]]
             /\ pc' = [pc EXCEPT ![i] = ReadFileCallbackAt(i)]
             /\ fds' = fds
        ELSE /\ fds' = [fds EXCEPT ![i] = [NoFd EXCEPT !.open = TRUE, !.linked = TRUE,
                                                       !.file = f, !.node = r.node]]
             /\ pc' = [pc EXCEPT ![i] = "rfStat"]
             /\ loc' = loc
  /\ hist' = [hist EXCEPT ![i].ops = @ \cup {"readFile"}]
  /\ UNCHANGED <<authVars, idp, fs, ncalls, call, cb, lastPut, deleted, created, collided>>

\* fs.readFile asks fstat for the size of the opened file, in a later turn:
\* that many bytes it is going to read (0 stands for "until nothing is left",
\* which is also what it takes for what is no regular file).
ReadFileFstat(i) ==
  /\ pc[i] = "rfStat"
  /\ fds' = [fds EXCEPT ![i].size = IF fds[i].node.dir THEN 0 ELSE Len(fds[i].node.data)]
  /\ pc' = [pc EXCEPT ![i] = "rfRead"]
  /\ UNCHANGED <<authVars, idp, fs, ncalls, call, loc, cb, hist, lastPut, deleted, created,
                 collided>>

\* One read of fs.readFile, each in a turn of its own: the bytes the opened
\* file holds by now from the offset reached, up to the size fstat gave.
\* The readFile is over when it has that many bytes or when a read finds
\* nothing: what it has read is its outcome.  The read of a directory fails.
ReadFileRead(i) ==
  /\ pc[i] = "rfRead"
  /\ LET d == fds[i]
         data == d.node.data
         last == IF d.size > 0 /\ d.size < Len(data) THEN d.size ELSE Len(data)
         bytes == SubSeq(data, Len(d.buf) + 1, last)
         buf == d.buf \o bytes
     IN IF d.node.dir
        THEN /\ loc' = [loc EXCEPT ![i].rf = [err |-> FsError("EISDIR"), data |-> <<>>]]
             /\ fds' = [fds EXCEPT ![i] = NoFd]
             /\ pc' = [pc EXCEPT ![i] = ReadFileCallbackAt(i)]
        ELSE IF bytes = <<>> \/ (d.size > 0 /\ Len(buf) = d.size)
        THEN /\ loc' = [loc EXCEPT ![i].rf = [err |-> NoErr, data |-> buf]]
             /\ fds' = [fds EXCEPT ![i] = NoFd]
             /\ pc' = [pc EXCEPT ![i] = ReadFileCallbackAt(i)]
        ELSE /\ fds' = [fds EXCEPT ![i].buf = buf]
             /\ UNCHANGED <<loc, pc>>
  /\ UNCHANGED <<authVars, idp, fs, ncalls, call, cb, hist, lastPut, deleted, created,
                 collided>>

\* Mutant of MetaSeed: a failed read gives a text that does not parse.
MetaSeedUnparsable(r) == IF r.err # NoErr THEN BadTurtle ELSE r.data

\* if (err) { metaFile = '' }
MetaSeed(r) == IF r.err # NoErr THEN <<>> ELSE r.data

\* Mutant of GetReadMeta: a metadata resource that is missing is created.
GetReadMetaCreating(i) ==
  /\ pc[i] = "readMeta"
  /\ LET r == ReadContainerMetaCallback(LdpReadFileCallback(loc[i].rf))
         w == StorePut(fs, ReadContainerMetaFile(Filename(i)), <<>>)
     IN /\ loc' = [loc EXCEPT ![i].metaFile = MetaSeed(r)]
        /\ fs' = IF r.err # NoErr THEN w.fs ELSE fs
  /\ pc' = [pc EXCEPT ![i] = "list"]
  /\ UNCHANGED <<authVars, fds, idp, ncalls, call, cb, hist, lastPut, deleted, created,
                 collided>>

\* The callback of readContainerMeta, on the outcome of the readFile that
\* waited for it: a failed read gives an empty seed.
GetReadMeta(i) ==
  /\ pc[i] = "readMeta"
  /\ loc' = [loc EXCEPT ![i].metaFile =
               MetaSeed(ReadContainerMetaCallback(LdpReadFileCallback(loc[i].rf)))]
  /\ pc' = [pc EXCEPT ![i] = "list"]
  /\ UNCHANGED <<authVars, fds, idp, fs, ncalls, call, cb, hist, lastPut, deleted, created,
                 collided>>

\* listContainer up to the first task of its waterfall: the metadata text
\* is parsed, and addContainerStats stats the container.  A text that does
\* not parse, or a stat that fails, ends the get.
GetList(i) ==
  /\ pc[i] = "list"
  /\ LET p == ListContainer(loc[i].metaFile)
         st == AddContainerStats(LdpStat(fs, Filename(i)))
     IN IF p.err # NoErr
        THEN /\ cb' = [cb EXCEPT ![i] = @ \o <<[err |-> p.err, val |-> <<>>]>>]
             /\ pc' = [pc EXCEPT ![i] = "done"]
             /\ hist' = hist
        ELSE IF st.err # NoErr
        THEN /\ cb' = [cb EXCEPT ![i] = @ \o
                        <<GetListed(ListFinal(st.err, loc[i].metaFile, {}, NoFault),
                                    call[i].type)>>]
             /\ pc' = [pc EXCEPT ![i] = "done"]
             /\ hist' = [hist EXCEPT ![i].ops = @ \cup {"stat"}]
        ELSE /\ pc' = [pc EXCEPT ![i] = "readdir"]
             /\ hist' = [hist EXCEPT ![i].ops = @ \cup {"stat"}]
             /\ cb' = cb
  /\ UNCHANGED <<authVars, fds, idp, fs, ncalls, call, loc, lastPut, deleted, created, collided>>

\* The second task of the waterfall, in a later turn: readdir.  Its entries
\* are handed to async.each, which calls back at once when there is none.
GetReaddir(i) ==
  /\ pc[i] = "readdir"
  /\ LET r == Readdir(fs, Filename(i))
     IN IF r.err # NoErr
        THEN /\ cb' = [cb EXCEPT ![i] = @ \o
                        <<GetListed(ListFinal(r.err, loc[i].metaFile, {}, NoFault),
                                    call[i].type)>>]
             /\ pc' = [pc EXCEPT ![i] = "done"]
             /\ hist' = [hist EXCEPT ![i].ops = @ \cup {"readdir"}]
             /\ loc' = loc
        ELSE /\ loc' = [loc EXCEPT ![i].files = r.files, ![i].members = {}]
             /\ hist' = [hist EXCEPT ![i].ops = @ \cup {"readdir"}, ![i].listed = r.files]
             /\ pc' = [pc EXCEPT ![i] = IF r.files = {} THEN "serialize" ELSE "each"]
             /\ cb' = cb
  /\ UNCHANGED <<authVars, fds, idp, fs, ncalls, call, lastPut, deleted, created, collided>>

\* One callback of the async.each fan-out: the description of entry `file`
\* completes.  The entries complete in any order; after the last one the
\* final callback of the waterfall runs.
GetAddFile(i, file, fault) ==
  /\ pc[i] = "each"
  /\ file \in loc[i].files
  /\ LET st == LdpStatFaulty(fs, PathJoin(Filename(i), file), fault)
         r == AddFile(loc[i].members, file, st)
         rest == loc[i].files \ {file}
         h == [hist EXCEPT ![i].ops = @ \cup {"stat"},
                           ![i].failed = IF st.err # NoErr THEN @ \cup {file} ELSE @]
     IN /\ hist' = h
        /\ loc' = [loc EXCEPT ![i].files = rest, ![i].members = r.members]
        /\ IF r.err # NoErr
           THEN /\ cb' = [cb EXCEPT ![i] = @ \o
                           <<GetListed(ListFinal(r.err, loc[i].metaFile, r.members, NoFault),
                                       call[i].type)>>]
                /\ pc' = [pc EXCEPT ![i] = "done"]
           ELSE /\ pc' = [pc EXCEPT ![i] = IF rest = {} THEN "serialize" ELSE "each"]
                /\ cb' = cb
  /\ UNCHANGED <<authVars, fds, idp, fs, ncalls, call, lastPut, deleted, created, collided>>

\* The final callback of the waterfall after a listing without error: the
\* graph is serialized (`fault` is what ails the serializer) and the outcome
\* goes to the callback of get.
GetSerialize(i, fault) ==
  /\ pc[i] = "serialize"
  /\ cb' = [cb EXCEPT ![i] = @ \o
             <<GetListed(ListFinal(NoErr, loc[i].metaFile, loc[i].members, fault),
                         call[i].type)>>]
  /\ hist' = [hist EXCEPT ![i].serializeFailed = fault # NoFault]
  /\ pc' = [pc EXCEPT ![i] = "done"]
  /\ UNCHANGED <<authVars, fds, idp, fs, ncalls, call, loc, lastPut, deleted, created, collided>>

(***************************************************************************)
(* LDP.graph                                                               *)
(***************************************************************************)

\* utils.parse(body, baseUri, contentType, cb)
ParseGraph(body) ==
  IF ParsesAsTurtle(body)
  THEN [err |-> NoErr, val |-> [graph |-> body]]
  ELSE [err |-> [status |-> 0, code |-> "ParseError", message |-> "ParseError"], val |-> <<>>]

StartGraph(i, k, host, path) ==
  /\ StartCall(i, k)
  /\ call' = [call EXCEPT ![i] = [NoCall EXCEPT !.op = "graph", !.host = host, !.path = path]]
  /\ hist' = [hist EXCEPT ![i] = HistAtCall(host, path)]
  /\ pc' = [pc EXCEPT ![i] = "rfOpen"]
  /\ cb' = [cb EXCEPT ![i] = <<>>]
  /\ loc' = [loc EXCEPT ![i] = NoLoc]
  /\ UNCHANGED <<authVars, fds, idp, fs, lastPut, deleted, created, collided>>

\* The waterfall of graph after its readFile: the outcome that waited for
\* the callback is handed over, the text parsed.
GraphStep(i) ==
  /\ pc[i] = "graph"
  /\ LET r == LdpReadFileCallback(loc[i].rf)
     IN cb' = [cb EXCEPT ![i] = @ \o <<IF r.err # NoErr
                                        THEN [err |-> r.err, val |-> <<>>]
                                        ELSE ParseGraph(r.data)>>]
  /\ pc' = [pc EXCEPT ![i] = "done"]
  /\ UNCHANGED <<authVars, fds, idp, fs, ncalls, call, loc, hist, lastPut, deleted, created,
                 collided>>

(***************************************************************************)
(* LDP.post and LDP.getAvailablePath                                       *)
(***************************************************************************)

\* "prepare slug": the decoded slug, and whether post rejects it.
PostValidate(slug) ==
  IF slug # <<>>
  THEN [slug |-> DecodeURIComponent(slug),
        bad |-> SlugMatchesReserved(DecodeURIComponent(slug))]
  ELSE [slug |-> slug, bad |-> FALSE]

BadSlugError == HttpStatusError(400, "The name of new file POSTed may not contain : | or /")

\* Mutant of ExistsVerdict: exists = !!err
ExistsVerdictInverted(err) == err # NoErr

\* exists = !err
ExistsVerdict(err) == err = NoErr

\* uuid.v1().split('-')[0] + '-'
UuidPrefix(uuid) == Split(uuid, "-")[1] \o <<"-">>

\* newPath = path.join(containerURI, id + slug)
NextCandidate(containerURI, slug, uuid) == PathJoin(containerURI, UuidPrefix(uuid) \o slug)

\* Mutant of PostTargets: the path of the metadata file is handed back.
PostTargetsMetaPath(newPath, container) ==
  IF container
  THEN [resourcePath |-> PathJoin(newPath, SuffixMeta),
        originalPath |-> PathJoin(newPath, SuffixMeta)]
  ELSE [resourcePath |-> newPath, originalPath |-> newPath]

\* The write target and the path handed back, from the allocated path.
PostTargets(newPath, container) ==
  IF container
  THEN [resourcePath |-> PathJoin(newPath, SuffixMeta),
        originalPath |-> IF newPath # <<>> /\ ~EndsWith(newPath, "/")
                         THEN newPath \o <<"/">> ELSE newPath]
  ELSE [resourcePath |-> newPath, originalPath |-> newPath]

\* The callback of ldp.put in post: if (err) callback(err); callback(null, originalPath)
PostCallbacks(err, originalPath) ==
  IF err # NoErr
  THEN <<[err |-> err, val |-> <<>>], [err |-> NoErr, val |-> originalPath]>>
  ELSE <<[err |-> NoErr, val |-> originalPath]>>

PostKey(c) == <<c.host, c.path, c.slug>>

StartPost(i, k, host, containerPath, slug, data, container, uuid) ==
  /\ StartCall(i, k)
  /\ call' = [call EXCEPT ![i] = [NoCall EXCEPT !.op = "post", !.host = host,
                                                !.path = containerPath, !.slug = slug,
                                                !.data = data, !.container = container]]
  /\ LET v == PostValidate(slug)
         name == IF v.slug = <<>> THEN uuid ELSE v.slug
     IN IF v.bad
        THEN /\ cb' = [cb EXCEPT ![i] = <<[err |-> BadSlugError, val |-> <<>>]>>]
             /\ pc' = [pc EXCEPT ![i] = "done"]
             /\ loc' = [loc EXCEPT ![i] = NoLoc]
             /\ hist' = [hist EXCEPT ![i] = NoHist]
        ELSE /\ cb' = [cb EXCEPT ![i] = <<>>]
             /\ pc' = [pc EXCEPT ![i] = "check"]
             /\ loc' = [loc EXCEPT ![i] = [NoLoc EXCEPT !.slug = name,
                                                       !.newPath = PathJoin(containerPath, name),
                                                       !.lastId = IF v.slug = <<>>
                                                                  THEN UuidPrefix(uuid)
                                                                  ELSE <<>>]]
             /\ hist' = [hist EXCEPT ![i] = [NoHist EXCEPT !.ops = {"getAvailablePath"}]]
  /\ UNCHANGED <<authVars, fds, idp, fs, lastPut, deleted, created, collided>>

\* One turn of the doWhilst loop of getAvailablePath: the existence check of
\* newPath (a body-less get), then either a new candidate or the hand-over
\* of newPath to post, which computes its targets and calls put.  `uuid` is
\* what uuid.v1() returns in this turn, `fault` what ails the stat.
AllocCheck(i, uuid, fault) ==
  /\ pc[i] = "check"
  /\ UuidPrefix(uuid) # loc[i].lastId
  /\ LET c == call[i]
         l == loc[i]
         st == LdpStatFaulty(fs, UriToFilename(l.newPath, RootOf(idp, c.host)), fault)
         err == IF st.err # NoErr THEN GetStatFailed(st.err)[1].err ELSE NoErr
         h == [hist EXCEPT ![i].ops = @ \cup {"stat"},
                           ![i].checked = <<[path |-> l.newPath, err |-> err # NoErr,
                                             status |-> err.status]>>,
                           ![i].nchecks = IF @ <= MaxChecks THEN @ + 1 ELSE @]
     IN IF ExistsVerdict(err)
        THEN /\ loc' = [loc EXCEPT ![i].newPath = NextCandidate(c.path, l.slug, uuid),
                                   ![i].lastId = UuidPrefix(uuid)]
             /\ hist' = h
             /\ pc' = pc
        ELSE LET t == PostTargets(l.newPath, c.container)
             IN /\ loc' = [loc EXCEPT ![i].originalPath = t.originalPath,
                                      ![i].resourcePath = t.resourcePath]
                /\ hist' = [h EXCEPT ![i].allocated = <<l.newPath>>,
                                     ![i].raced =
                                       \E j \in Procs \ {i} :
                                         /\ pc[j] = "postPut"
                                         /\ call[j].host = c.host
                                         /\ loc[j].resourcePath = t.resourcePath]
                /\ pc' = [pc EXCEPT ![i] = "postPut"]
  /\ UNCHANGED <<authVars, fds, idp, fs, ncalls, call, cb, lastPut, deleted, created, collided>>

\* ldp.put of post, and its callback.
PostPut(i) ==
  /\ pc[i] = "postPut"
  /\ LET c == call[i]
         l == loc[i]
         f == UriToFilename(l.resourcePath, RootOf(idp, c.host))
         r == StorePut(fs, f, c.data)
         err == LdpPutCallbacks(r.err)[1].err
         outs == PostCallbacks(err, l.originalPath)
         h == [hist EXCEPT ![i].ops = @ \cup {"store.put"},
                           ![i].muts = IF r.err = NoErr THEN @ \cup {f} ELSE @]
         \* A post without slug names its resource by a fresh uuid each time:
         \* only posts that supply the slug ask for the same name.
         earlier == IF c.slug = <<>> THEN {} ELSE {e \in created : e.key = PostKey(c)}
     IN /\ fs' = r.fs
        /\ cb' = [cb EXCEPT ![i] = @ \o outs]
        /\ hist' = Disturb(h, r.fs, i)
        /\ lastPut' = IF r.err = NoErr
                      THEN PutsAfter(f) \cup {[file |-> f, data |-> c.data]}
                      ELSE lastPut
        /\ deleted' = DeletedAfter(deleted, r.fs)
        /\ created' = created \cup {[key |-> PostKey(c), path |-> outs[k].val,
                                     file |-> f, written |-> r.err = NoErr] :
                                       k \in {k \in 1..Len(outs) : outs[k].err = NoErr}}
        /\ collided' =
             \/ collided
             \/ \E e \in earlier : \E k \in 1..Len(outs) :
                   (outs[k].err = NoErr /\ outs[k].val = e.path)
             \/ \E e \in earlier :
                   (r.err = NoErr /\ e.written /\ Segs(e.file) = Segs(f))
  /\ pc' = [pc EXCEPT ![i] = "done"]
  /\ fds' = StreamsAfter(fs')
  /\ UNCHANGED <<authVars, idp, ncalls, call, loc>>

(***************************************************************************)
(* The OIDC handlers: the routers of authenticate() and api()              *)
(***************************************************************************)

\* Request r of session sid enters a router, whatever the other requests
\* are doing: the first handler of its route is next.
Arrive(r, sid, route) ==
  /\ req[r].stage = "none"
  /\ req' = [req EXCEPT ![r] =
               [NoReq EXCEPT !.stage = IF route = "rp" THEN "authCallback"
                                       ELSE "loadAuthClient",
                             !.route = route, !.sid = sid]]
  /\ UNCHANGED <<ldpVars, session>>

\* The sign-in flow stores where to return to in the session, before the
\* browser comes back to /rp.
StoreReturnTo(sid, url) ==
  /\ session[sid].returnToUrl = Undefined
  /\ session' = [session EXCEPT ![sid].returnToUrl = <<url>>]
  /\ UNCHANGED <<ldpVars, req>>

\* loadAuthClient, up to its return: extractIssuer throws (next(err) ends
\* the router), finds no token (next()), or finds an issuer, whose client is
\* asked for.
LoadAuthClient(r, outcome) ==
  /\ req[r].stage = "loadAuthClient"
  /\ req' = [req EXCEPT ![r] =
               IF outcome = "throws" THEN [@ EXCEPT !.stage = "done", !.failed = TRUE]
               ELSE IF outcome = "none" THEN [@ EXCEPT !.stage = "authWithClient"]
               ELSE [@ EXCEPT !.stage = "clientForIssuer"]]
  /\ UNCHANGED <<ldpVars, session>>

\* The promise of clientForIssuer settles, in a later turn: the client is
\* stored in the request and next() called, or next(err).
ClientForIssuer(r, resolved) ==
  /\ req[r].stage = "clientForIssuer"
  /\ req' = [req EXCEPT ![r] =
               IF resolved THEN [@ EXCEPT !.stage = "authWithClient", !.oidcClient = TRUE]
               ELSE [@ EXCEPT !.stage = "done", !.failed = TRUE]]
  /\ UNCHANGED <<ldpVars, session>>

\* authWithClient: without client next() at once; else the verifier of the
\* client is called.
AuthWithClient(r) ==
  /\ req[r].stage = "authWithClient"
  /\ req' = [req EXCEPT ![r].stage = IF ~req[r].oidcClient THEN "authSessionInit"
                                     ELSE "verifier"]
  /\ UNCHANGED <<ldpVars, session>>

\* The verifier calls back, in a later turn: it has loaded the userinfo
\* (null without token) and calls next(), or it calls next(err).
Verifier(r, verified, userInfo) ==
  /\ req[r].stage = "verifier"
  /\ req' = [req EXCEPT ![r] =
               IF ~verified THEN [@ EXCEPT !.stage = "done", !.failed = TRUE]
               ELSE [@ EXCEPT !.stage = "authSessionInit", !.userInfo = userInfo]]
  /\ UNCHANGED <<ldpVars, session>>

\* authCallback of the route /rp: the token is fetched and verified and the
\* userinfo loaded into the request, then next(); or next(err).
AuthCallback(r, ok, userInfo) ==
  /\ req[r].stage = "authCallback"
  /\ req' = [req EXCEPT ![r] =
               IF ~ok THEN [@ EXCEPT !.stage = "done", !.failed = TRUE]
               ELSE [@ EXCEPT !.stage = "authSessionInit", !.userInfo = userInfo]]
  /\ UNCHANGED <<ldpVars, session>>

\* authSessionInit(req, res, next): the session it leaves and its calls of
\* next ("" is next() without error).
SessionInit(userInfo, sess) ==
  IF userInfo = <<>> THEN [session |-> sess, nexts |-> <<"">>]
  ELSE LET webId == userInfo[1].profile
       IN [session |-> [sess EXCEPT !.userId = webId, !.identified = TRUE],
           nexts |-> <<"">>]

\* authSessionInit runs for request r: the last handler of authenticate(),
\* and the one before rpCallback on the route /rp.
AuthSessionInit(r) ==
  /\ req[r].stage = "authSessionInit"
  /\ LET sid == req[r].sid
         res == SessionInit(req[r].userInfo, session[sid])
     IN /\ session' = [session EXCEPT ![sid] = res.session]
        /\ req' = [req EXCEPT ![r].stage = IF req[r].route = "rp" THEN "rpCallback"
                                           ELSE "done",
                              ![r].nexts = @ \o res.nexts,
                              ![r].kept = res.session = session[sid]]
  /\ UNCHANGED ldpVars

\* rpCallback: a session that holds returnToUrl is redirected there and the
\* URL is deleted from it; else 'OK' is sent.
RpCallback(r) ==
  /\ req[r].stage = "rpCallback"
  /\ LET sid == req[r].sid
     IN IF session[sid].returnToUrl # Undefined
        THEN /\ session' = [session EXCEPT ![sid].returnToUrl = Undefined]
             /\ req' = [req EXCEPT ![r].stage = "done", ![r].sent = "302"]
        ELSE /\ session' = session
             /\ req' = [req EXCEPT ![r].stage = "done", ![r].sent = "OK"]
  /\ UNCHANGED ldpVars

(***************************************************************************)
(* Specification                                                           *)
(***************************************************************************)

\* The steps with at most k requests in flight, on a filesystem whose
\* operations are subject to the faults in `faults`.
NextKF(k, faults) ==
  \E i \in Procs :
    \/ /\ CanStart(i, k)
       /\ \E host \in HostsOf(idp), path \in ReqPaths, o \in GetOptions :
            StartGet(i, k, host, path, o.includeBody, o.type, o.range)
    \/ /\ CanStart(i, k)
       /\ \E host \in HostsOf(idp), path \in ReqPaths : StartExists(i, k, host, path)
    \/ /\ CanStart(i, k)
       /\ \E host \in HostsOf(idp), path \in ReqPaths : StartGraph(i, k, host, path)
    \/ /\ CanStart(i, k)
       /\ \E host \in HostsOf(idp), path \in ReqPaths : StartDelete(i, k, host, path)
    \/ /\ CanStart(i, k)
       /\ \E host \in HostsOf(idp), path \in ReqPaths, data \in Contents :
            StartPut(i, k, host, path, data)
    \/ /\ CanStart(i, k)
       /\ \E host \in HostsOf(idp), path \in ContainerPaths, slug \in Slugs,
             data \in PostContents, container \in BOOLEAN :
            \E uuid \in IF slug = <<>> THEN Uuids ELSE {<<>>} :
              StartPost(i, k, host, path, slug, data, container, uuid)
    \/ \E fault \in faults : GetFsStat(i, fault)
    \/ \E fault \in faults : GetStat(i, fault)
    \/ GetOpen(i)
    \/ \E fault \in faults : GetRead(i, fault)
    \/ ReadFileOpen(i)
    \/ ReadFileFstat(i)
    \/ ReadFileRead(i)
    \/ GetReadMeta(i)
    \/ GetList(i)
    \/ GetReaddir(i)
    \/ \E file \in loc[i].files, fault \in faults : GetAddFile(i, file, fault)
    \/ \E fault \in faults : GetSerialize(i, fault)
    \/ GraphStep(i)
    \/ DeleteStep(i)
    \/ PutStep(i)
    \/ \E uuid \in Uuids, fault \in faults : AllocCheck(i, uuid, fault)
    \/ PostPut(i)

\* The steps with at most k requests in flight, on a sound filesystem.
NextK(k) == NextKF(k, {NoFault})

\* One request at a time: every call completes before the next one starts.
Next == NextK(1)

Spec == Init /\ [][Next]_vars

\* Posts only, with at most k in flight.
NextPostK(k) ==
  \E i \in Procs :
    \/ /\ CanStart(i, k)
       /\ \E host \in HostsOf(idp), path \in ContainerPaths, slug \in Slugs,
             data \in PostContents, container \in BOOLEAN :
            \E uuid \in IF slug = <<>> THEN Uuids ELSE {<<>>} :
              StartPost(i, k, host, path, slug, data, container, uuid)
    \/ \E uuid \in Uuids : AllocCheck(i, uuid, NoFault)
    \/ PostPut(i)

\* Posts only, one at a time.
NextPost == NextPostK(1)

SpecSeqPost == Init /\ [][NextPost]_vars

\* Gets, existence checks and posts, one at a time, on a filesystem whose
\* operations may fail for other reasons than absence.
NextFault ==
  \E i \in Procs :
    \/ /\ CanStart(i, 1)
       /\ \E host \in HostsOf(idp), path \in ReqPaths, o \in GetOptions :
            StartGet(i, 1, host, path, o.includeBody, o.type, o.range)
    \/ /\ CanStart(i, 1)
       /\ \E host \in HostsOf(idp), path \in ReqPaths : StartExists(i, 1, host, path)
    \/ /\ CanStart(i, 1)
       /\ \E host \in HostsOf(idp), path \in ContainerPaths, slug \in Slugs,
             data \in PostContents, container \in BOOLEAN :
            \E uuid \in IF slug = <<>> THEN Uuids ELSE {<<>>} :
              StartPost(i, 1, host, path, slug, data, container, uuid)
    \/ \E fault \in IoFaults : GetFsStat(i, fault)
    \/ \E fault \in IoFaults : GetStat(i, fault)
    \/ GetOpen(i)
    \/ \E fault \in IoFaults : GetRead(i, fault)
    \/ ReadFileOpen(i)
    \/ ReadFileFstat(i)
    \/ ReadFileRead(i)
    \/ GetReadMeta(i)
    \/ GetList(i)
    \/ GetReaddir(i)
    \/ \E file \in loc[i].files, fault \in IoFaults : GetAddFile(i, file, fault)
    \/ \E fault \in IoFaults : GetSerialize(i, fault)
    \/ \E uuid \in Uuids, fault \in IoFaults : AllocCheck(i, uuid, fault)
    \/ PostPut(i)

SpecFault == Init /\ [][NextFault]_vars

\* Puts and full-body gets of resources named in MimePaths, one at a time.
NextMime ==
  \E i \in Procs :
    \/ /\ CanStart(i, 1)
       /\ \E host \in HostsOf(idp), path \in MimePaths, data \in Contents :
            StartPut(i, 1, host, path, data)
    \/ /\ CanStart(i, 1)
       /\ \E host \in HostsOf(idp), path \in MimePaths, type \in RdfTypes :
            StartGet(i, 1, host, path, TRUE, type, <<>>)
    \/ PutStep(i)
    \/ GetFsStat(i, NoFault)
    \/ GetStat(i, NoFault)
    \/ GetOpen(i)
    \/ GetRead(i, NoFault)

SpecMime == Init /\ [][NextMime]_vars

\* Posts only, two of them in flight at the same time: their callbacks
\* interleave in any order.
NextConcPost == NextPostK(2)

SpecConcPost == Init /\ [][NextConcPost]_vars

\* Gets, exists and graph calls, puts and deletes, two of them in flight at
\* the same time: what one request writes or removes lands between the turns
\* of the other.
NextConcGet ==
  \E i \in Procs :
    \/ /\ CanStart(i, 2)
       /\ \E host \in HostsOf(idp), path \in ReqPaths, o \in GetOptions :
            StartGet(i, 2, host, path, o.includeBody, o.type, o.range)
    \/ /\ CanStart(i, 2)
       /\ \E host \in HostsOf(idp), path \in ReqPaths : StartExists(i, 2, host, path)
    \/ /\ CanStart(i, 2)
       /\ \E host \in HostsOf(idp), path \in ReqPaths : StartGraph(i, 2, host, path)
    \/ /\ CanStart(i, 2)
       /\ \E host \in HostsOf(idp), path \in ReqPaths : StartDelete(i, 2, host, path)
    \/ /\ CanStart(i, 2)
       /\ \E host \in HostsOf(idp), path \in ReqPaths \cup {<<"/", "c", "/">> \o SuffixMeta}, data \in Contents :
            StartPut(i, 2, host, path, data)
    \/ GetFsStat(i, NoFault)
    \/ GetStat(i, NoFault)
    \/ GetOpen(i)
    \/ GetRead(i, NoFault)
    \/ ReadFileOpen(i)
    \/ ReadFileFstat(i)
    \/ ReadFileRead(i)
    \/ GetReadMeta(i)
    \/ GetList(i)
    \/ GetReaddir(i)
    \/ \E file \in loc[i].files : GetAddFile(i, file, NoFault)
    \/ GetSerialize(i, NoFault)
    \/ GraphStep(i)
    \/ DeleteStep(i)
    \/ PutStep(i)

SpecConcGet == Init /\ [][NextConcGet]_vars

\* The requests that pass the OIDC routers, in any interleaving of their
\* handlers.
NextAuth ==
  \/ \E r \in Reqs, sid \in Sessions, route \in Routes : Arrive(r, sid, route)
  \/ \E sid \in Sessions, url \in ReturnToUrls : StoreReturnTo(sid, url)
  \/ \E r \in Reqs, outcome \in {"throws", "none", "issuer"} : LoadAuthClient(r, outcome)
  \/ \E r \in Reqs, resolved \in BOOLEAN : ClientForIssuer(r, resolved)
  \/ \E r \in Reqs : AuthWithClient(r)
  \/ \E r \in Reqs, verified \in BOOLEAN, userInfo \in UserInfos :
       Verifier(r, verified, userInfo)
  \/ \E r \in Reqs, ok \in BOOLEAN, userInfo \in UserInfos : AuthCallback(r, ok, userInfo)
  \/ \E r \in Reqs : AuthSessionInit(r)
  \/ \E r \in Reqs : RpCallback(r)

SpecAuth == Init /\ [][NextAuth]_vars

(***************************************************************************)
(* Claims                                                                  *)
(***************************************************************************)

Done(i, op) == pc[i] = "done" /\ call[i].op = op

\* The call of request i ran against a target nobody else touched meanwhile.
Absent(i) == hist[i].pre.err # NoErr /\ hist[i].undisturbed
Present(i) == hist[i].pre.err = NoErr /\ hist[i].undisturbed

\* C1: a get (with or without body), exists, graph or delete on a path that
\* has no filesystem entry hands exactly one outcome to its callback, and it
\* is a NotFound error: none of them reports success.
C1_AbsentIsNotFound ==
  \A i \in Procs :
    (pc[i] = "done" /\ call[i].op \in {"get", "exists", "graph", "delete"} /\ Absent(i))
      => (Len(cb[i]) = 1 /\ IsNotFound(cb[i][1].err))

C1_Witness ==
  \E i \in Procs :
    /\ Done(i, "get") /\ call[i].includeBody /\ Absent(i)
    /\ Len(cb[i]) = 1 /\ IsNotFound(cb[i][1].err)

\* C2: a full-body get without range on a path at which a successful put
\* stands (no write or delete to the path since) succeeds and streams exactly
\* the content that was put.
C2_PutGetRoundTrip ==
  \A i \in Procs :
    (Done(i, "get") /\ call[i].includeBody /\ call[i].range = <<>>
       /\ hist[i].putAtCall # <<>> /\ hist[i].undisturbed)
      => (/\ Len(cb[i]) = 1
          /\ cb[i][1].err = NoErr
          /\ ~cb[i][1].val.container
          /\ cb[i][1].val.stream = hist[i].putAtCall[1])

C2_Witness ==
  \E i \in Procs :
    /\ Done(i, "get") /\ call[i].includeBody /\ call[i].range = <<>>
    /\ hist[i].putAtCall # <<>>
    /\ Len(cb[i]) = 1 /\ cb[i][1].err = NoErr
    /\ cb[i][1].val.stream = hist[i].putAtCall[1]

\* C3: a delete of a path that an earlier delete removed, and that nothing
\* has brought back since, hands a NotFound error to its callback and
\* changes nothing in the filesystem.
C3_DeleteAgainNotFound ==
  \A i \in Procs :
    (Done(i, "delete") /\ hist[i].delAtCall /\ hist[i].undisturbed)
      => (Len(cb[i]) = 1 /\ IsNotFound(cb[i][1].err) /\ hist[i].muts = {})

C3_Witness ==
  \E i \in Procs :
    /\ Done(i, "delete") /\ hist[i].delAtCall
    /\ Len(cb[i]) = 1 /\ IsNotFound(cb[i][1].err)

\* The decoded slug of request i holds one of '/', '|', ':'.
HasReservedChar(i) ==
  \E k \in 1..Len(call[i].slug) : DecodeChar(call[i].slug[k]) \in {"/", "|", ":"}

\* C4: a post whose decoded slug holds '/', '|' or ':' is over at once: its
\* callback has received the BadSlug (400) error and nothing else, neither
\* the allocator nor put was called, and it changed nothing in the filesystem.
C4_BadSlugRejected ==
  \A i \in Procs :
    (call[i].op = "post" /\ HasReservedChar(i))
      => (/\ pc[i] = "done"
          /\ Len(cb[i]) = 1 /\ IsBadSlug(cb[i][1].err)
          /\ hist[i].ops = {} /\ hist[i].muts = {})

C4_Witness ==
  \E i \in Procs :
    /\ Done(i, "post") /\ call[i].slug = <<"a", "%2F", "b">>
    /\ Len(cb[i]) = 1 /\ IsBadSlug(cb[i][1].err)

\* C5: in a sequence of posts into the same container with the same slug,
\* each completing before the next starts, no post returns a path an earlier
\* one returned, and none writes where an earlier one created a resource.
C5_CreatedPathsDistinct == ~collided

\* C6: the path getAvailablePath hands to its callback is the candidate of
\* its most recent existence check, and that check reported no resource.
C6_AllocatedWasCheckedAbsent ==
  \A i \in Procs :
    hist[i].allocated # <<>>
      => (/\ hist[i].checked # <<>>
          /\ hist[i].checked[1].path = hist[i].allocated[1]
          /\ hist[i].checked[1].err)

\* An allocation that took a second candidate: the slug was taken.
C6_Witness ==
  \E i \in Procs :
    /\ hist[i].allocated # <<>>
    /\ hist[i].allocated[1] # PathJoin(call[i].path, loc[i].slug)
    /\ hist[i].checked[1].path = hist[i].allocated[1]

\* The range header bytes=s-e.
RangeHeader(s, e) == <<"bytes=">> \o IntToStr(s) \o <<"-">> \o IntToStr(e)

\* C7: a full-body get of a file of `total` bytes with range bytes=s-e,
\* 0 <= s <= e < total, streams exactly the bytes at offsets s..e and
\* reports contentRange 'bytes s-e/total' and chunksize e-s+1.
C7_RangeIsSliced ==
  \A i \in Procs :
    (Done(i, "get") /\ call[i].includeBody /\ Present(i) /\ ~hist[i].pre.node.dir)
      => LET data == hist[i].pre.node.data
             total == Len(data)
         IN \A s \in 0..(total - 1) : \A e \in s..(total - 1) :
              call[i].range = RangeHeader(s, e)
                => (/\ Len(cb[i]) = 1
                    /\ cb[i][1].err = NoErr
                    /\ cb[i][1].val.stream = SubSeq(data, s + 1, e + 1)
                    /\ cb[i][1].val.chunksize = <<e - s + 1>>
                    /\ Len(cb[i][1].val.stream) = e - s + 1
                    /\ cb[i][1].val.contentRange =
                         <<"bytes ">> \o IntToStr(s) \o <<"-">> \o IntToStr(e)
                           \o <<"/">> \o IntToStr(total))

\* C8 as amended: every successful full-body get on a container reports
\* text/turtle, whatever possibleRDFType is.
C8_FullBodyContainerIsTurtle ==
  \A i \in Procs :
    (Done(i, "get") /\ call[i].includeBody /\ Len(cb[i]) >= 1 /\ cb[i][1].err = NoErr
       /\ cb[i][1].val.container)
      => cb[i][1].val.contentType = "text/turtle"

C8_Witness ==
  \E i \in Procs :
    /\ Done(i, "get") /\ call[i].includeBody /\ call[i].type = "application/ld+json"
    /\ Len(cb[i]) = 1 /\ cb[i][1].err = NoErr /\ cb[i][1].val.container
    /\ cb[i][1].val.contentType = "text/turtle"

\* C8 as stated: every successful get on a container reports text/turtle,
\* whatever possibleRDFType and includeBody are.
C8_ContainerIsTurtle ==
  \A i \in Procs :
    (Done(i, "get") /\ Len(cb[i]) >= 1 /\ cb[i][1].err = NoErr /\ cb[i][1].val.container)
      => cb[i][1].val.contentType = "text/turtle"

\* C9: a get with includeBody false on an existing resource succeeds with
\* the stats of the path and its kind, and stat is the only filesystem
\* operation it issues.
C9_BodylessIsStatOnly ==
  \A i \in Procs :
    (Done(i, "get") /\ ~call[i].includeBody /\ Present(i))
      => (/\ Len(cb[i]) = 1
          /\ cb[i][1].err = NoErr
          /\ cb[i][1].val.stream = StatsOf(hist[i].pre.node)
          /\ cb[i][1].val.container = hist[i].pre.node.dir
          /\ hist[i].ops = {"stat"})

C9_Witness ==
  \E i \in Procs :
    /\ Done(i, "get") /\ ~call[i].includeBody /\ Present(i)
    /\ hist[i].pre.node.dir
    /\ Len(cb[i]) = 1 /\ cb[i][1].val.container
    /\ hist[i].ops = {"stat"}

\* C10: every post hands exactly one outcome to its callback, a created
\* path, BadSlug or IOError: after a failed put the caller has the error and
\* is not told that a path was created.
C10_PostOneOutcome ==
  \A i \in Procs :
    call[i].op = "post"
      => (/\ Len(cb[i]) <= 1
          /\ pc[i] = "done" =>
               (/\ Len(cb[i]) = 1
                /\ (cb[i][1].err = NoErr \/ IsBadSlug(cb[i][1].err) \/ IsIOError(cb[i][1].err))))

\* The filename of request path p for the host of request i.
FileOf(i, p) == UriToFilename(p, RootOf(idp, call[i].host))

\* The paths post i has reported as created.
Returned(i) == {cb[i][k].val : k \in {k \in 1..Len(cb[i]) : cb[i][k].err = NoErr}}

\* The put of post i succeeded.
PostSucceeded(i) == Done(i, "post") /\ Len(cb[i]) = 1 /\ cb[i][1].err = NoErr

\* C11: a post with isContainer true that was allocated path P writes no
\* file but the metadata resource P/.meta, reports P with a trailing '/' as
\* created (never the path of the metadata file), and once it has succeeded
\* a get on the reported path finds a container.
C11_ContainerPost ==
  \A i \in Procs :
    (Done(i, "post") /\ call[i].container /\ hist[i].allocated # <<>>)
      => LET P == hist[i].allocated[1]
             logical == IF EndsWith(P, "/") THEN P ELSE P \o <<"/">>
         IN /\ \A f \in hist[i].muts : Segs(f) = Segs(FileOf(i, P)) \o <<SuffixMeta>>
            /\ Returned(i) = {logical}
            /\ PostSucceeded(i) =>
                 LET st == LdpStat(fs, FileOf(i, logical))
                 IN st.err = NoErr /\ GetBodyless(st.stats, "undefined").container

C11_Witness ==
  \E i \in Procs :
    /\ PostSucceeded(i) /\ call[i].container
    /\ hist[i].allocated = <<<<"/", "c", "/", "u1", "-", "a">>>>
    /\ cb[i][1].val = <<"/", "c", "/", "u1", "-", "a", "/">>
    /\ hist[i].muts # {}
    /\ FsLookup(fs, FileOf(i, cb[i][1].val)).node.dir

\* C12: exists reports a path as absent only when its body-less get failed
\* with NotFound, and getAvailablePath hands over no path whose existence
\* check failed with another error than NotFound.
C12_AbsentOnlyIfNotFound ==
  /\ \A i \in Procs :
       (Done(i, "exists") /\ Len(cb[i]) = 1 /\ ~ExistsVerdict(cb[i][1].err))
         => IsNotFound(cb[i][1].err)
  /\ \A i \in Procs :
       hist[i].allocated # <<>> => hist[i].checked[1].status = 404

\* C13: a full-body get on a container whose entries were enumerated, and
\* whose graph the serializer accepts, succeeds even when the description of
\* some entry failed, and the members of the graph it returns are exactly
\* the enumerated entries whose description succeeded, in whatever order the
\* descriptions completed.
C13_ListingSkipsFailedEntries ==
  \A i \in Procs :
    (Done(i, "get") /\ call[i].includeBody /\ hist[i].listed # {}
       /\ ~hist[i].serializeFailed)
      => (/\ Len(cb[i]) = 1
          /\ cb[i][1].err = NoErr
          /\ cb[i][1].val.container
          /\ cb[i][1].val.stream.members = hist[i].listed \ hist[i].failed)

\* A listing of three entries in which one description failed.
C13_Witness ==
  \E i \in Procs :
    /\ Done(i, "get") /\ call[i].includeBody
    /\ Cardinality(hist[i].listed) = 3
    /\ hist[i].failed = {<<"u1", "-", "a">>}
    /\ Len(cb[i]) = 1 /\ cb[i][1].err = NoErr
    /\ cb[i][1].val.stream.members = {<<"a">>, <<"u2", "-", "a">>}

\* The metadata resource of the container request i is about, as it is read.
MetaOf(i) == ReadContainerMeta(fs, Filename(i))

\* C14: a full-body get on a container whose metadata resource is missing
\* does not fail and its listing has an empty seed; when the metadata
\* resource is there and its turtle does not parse, the get fails with
\* CannotParseContainer and returns no listing.
C14_MetaMissingOrUnparsable ==
  \A i \in Procs :
    (Done(i, "get") /\ call[i].includeBody /\ Present(i) /\ hist[i].pre.node.dir)
      => /\ Len(cb[i]) = 1
         /\ IsNotFound(MetaOf(i).err)
              => (cb[i][1].err = NoErr /\ cb[i][1].val.stream.seed = <<>>)
         /\ (MetaOf(i).err = NoErr /\ ~ParsesAsTurtle(MetaOf(i).data))
              => (/\ cb[i][1].err = HttpStatusError(500, "Can't parse container")
                  /\ cb[i][1].val = <<>>)

\* A container whose members are listed although it has no metadata resource.
C14_Witness ==
  \E i \in Procs :
    /\ Done(i, "get") /\ call[i].includeBody /\ Present(i) /\ hist[i].pre.node.dir
    /\ IsNotFound(MetaOf(i).err)
    /\ Len(cb[i]) = 1 /\ cb[i][1].err = NoErr
    /\ cb[i][1].val.stream.seed = <<>>
    /\ cb[i][1].val.stream.members # {}

\* A container whose metadata resource does not parse.
C14_WitnessUnparsable ==
  \E i \in Procs :
    /\ Done(i, "get") /\ call[i].includeBody /\ Present(i) /\ hist[i].pre.node.dir
    /\ MetaOf(i).err = NoErr /\ MetaOf(i).data = BadTurtle
    /\ Len(cb[i]) = 1 /\ cb[i][1].err.message = "Can't parse container"

\* C15: the retry loop of getAvailablePath is bounded: no allocation makes
\* more than MaxChecks existence checks, also when every candidate it tries
\* exists.
C15_ChecksBounded ==
  \A i \in Procs : hist[i].nchecks <= MaxChecks

\* Request i takes a step: its position, arguments, locals, callbacks or
\* recorded operations change, or its progress on the file it holds open
\* does (opened or closed, position of the stream, size taken by fstat, bytes
\* read so far). The file behind the descriptor (node, linked) changes with
\* the writes and removals of other requests, which are not steps of i.
Acts(i) ==
  pc'[i] # pc[i] \/ call'[i] # call[i] \/ loc'[i] # loc[i] \/ cb'[i] # cb[i]
    \/ hist'[i].ops # hist[i].ops
    \/ fds'[i].open # fds[i].open \/ fds'[i].pos # fds[i].pos
    \/ fds'[i].size # fds[i].size \/ fds'[i].buf # fds[i].buf

ReadOps == {"get", "exists", "graph"}

\* C16: no step of a get, an exists or a graph call, from the call to its
\* last callback, changes the filesystem: the existing paths and the content
\* of every path stay as they are, whether the call succeeds or fails.
C16_ReadsDoNotMutate ==
  [][\A i \in Procs : (Acts(i) /\ call'[i].op \in ReadOps) => fs' = fs]_vars

\* A get that listed a container of a filesystem that holds entries.
C16_Witness ==
  \E i \in Procs :
    /\ Done(i, "get") /\ call[i].includeBody
    /\ hist[i].pre.node.dir /\ hist[i].pre.err = NoErr
    /\ {"stat", "readFile", "readdir"} \subseteq hist[i].ops
    /\ Len(cb[i]) = 1 /\ cb[i][1].err = NoErr
    /\ DOMAIN fs # {<<>>}

\* The filename f ends with x.
EndsWithStr(f, x) == Len(f) >= Len(x) /\ SubSeq(f, Len(f) - Len(x) + 1, Len(f)) = x

WroteSame(i, j) ==
  /\ call[i].op = "post" /\ call[j].op = "post"
  /\ hist[i].muts \cap hist[j].muts # {}

\* C18: two posts in flight at the same time write the same file only
\* through the window between check and write: one of them was handed its
\* path while the other held the same path and had not written it yet.
\* That interleaving is reachable (C18_Witness), so the paths created are
\* not distinct under concurrency.
C18_SamePathOnlyByRace ==
  \A i \in Procs : \A j \in Procs \ {i} :
    WroteSame(i, j) => (hist[i].raced \/ hist[j].raced)

\* Two posts for the same container and slug: both checks found the
\* candidate absent before either write, both were handed the same path,
\* and both wrote it.
C18_Witness ==
  \E i \in Procs : \E j \in Procs \ {i} :
    /\ Done(i, "post") /\ Done(j, "post")
    /\ call[i].slug # <<>> /\ PostKey(call[i]) = PostKey(call[j])
    /\ hist[i].allocated = hist[j].allocated
    /\ hist[i].checked[1].err /\ hist[j].checked[1].err
    /\ hist[i].checked[1].path = hist[i].allocated[1]
    /\ hist[j].checked[1].path = hist[j].allocated[1]
    /\ hist[j].raced
    /\ hist[i].muts # {} /\ hist[i].muts = hist[j].muts
    /\ Returned(i) = Returned(j)
    /\ collided

\* Path p is an immediate child of container path c, named `name`.
IsChildNamed(p, c, name) == Segs(p) = Segs(c) \o <<name>>

\* C19: the path a post hands to put and reports is an immediate child of
\* containerPath whose last segment is the slug, or one disambiguating
\* prefix followed by the slug: never a path at or above the container.
C19_ChildOfContainer ==
  \A i \in Procs :
    hist[i].allocated # <<>>
      => \E name \in {loc[i].slug} \cup {<<t, "-">> \o loc[i].slug : t \in TimeLows} :
           IsChildNamed(hist[i].allocated[1], call[i].path, name)

\* C20: every get calls its callback exactly once, whichever branch it
\* takes: never twice, and once when it is over.
C20_GetCallsBackOnce ==
  \A i \in Procs :
    call[i].op = "get"
      => (Len(cb[i]) <= 1 /\ (pc[i] = "done" => Len(cb[i]) = 1))

\* authSessionInit has run for request r.
SessionInitRan(r) == req[r].stage \in {"rpCallback", "done"} /\ ~req[r].failed

\* C21: authSessionInit marks a session as identified only together with a
\* WebID: a session that is identified has a defined, non-empty userId; run
\* for a request without userInfo it leaves the session as it found it; and
\* it calls next() exactly once, without error, in every case.
C21_IdentifiedHasWebId ==
  /\ \A s \in Sessions : session[s].identified => ~Falsy(session[s].userId)
  /\ \A r \in Reqs : (SessionInitRan(r) /\ req[r].userInfo = <<>>) => req[r].kept
  /\ \A r \in Reqs : SessionInitRan(r) => req[r].nexts = <<"">>

\* The parts of C21 that do not depend on the WebID: run for a request
\* without userInfo authSessionInit leaves the session alone, and it calls
\* next() once.
C21_SessionKeptAndNextOnce ==
  \A r \in Reqs :
    /\ (SessionInitRan(r) /\ req[r].userInfo = <<>>) => req[r].kept
    /\ SessionInitRan(r) => req[r].nexts = <<"">>
    /\ Len(req[r].nexts) <= 1

====
